---- MODULE Spec2Model ----
(***************************************************************************)
(* Model of src/school_data.py: the SchoolData class (tensor reshape and   *)
(* the two name/code dictionaries), the Statistics reductions over a       *)
(* school's (years x grades) slice, and the interaction loop of main().    *)
(*                                                                         *)
(* Strings are sequences of one-character strings, so that str(), int()    *)
(* and dictionary-key comparison are modelled by what they do.  A Python   *)
(* dict is a sequence of <<key, value>> pairs in insertion order.          *)
(***************************************************************************)
EXTENDS Integers, Sequences, FiniteSets, TLC

VARIABLES
    rows,               \* the ten year arrays handed to SchoolData (main: `data`)
    table,              \* the rows of school_df: <<School Name, School Code>>
    pc,                 \* position in main()'s while loop
    data,               \* self.data, <<>> before construction
    school_names_ids,   \* self.school_names_ids
    school_ids_names,   \* self.school_ids_names
    user_input,         \* the text returned by input()
    found,              \* what input_handler_for_part2 obtained from look_up_school
    school_data,        \* the slice handed to the Statistics functions
    report,             \* what print_school_stats computed
    error,              \* the exception of the last iteration, kind "none" if none
    edits               \* cells overwritten so far when preparing a slice

vars == <<rows, table, pc, data, school_names_ids, school_ids_names,
          user_input, found, school_data, report, error, edits>>

(***************************************************************************)
(* Bounds of the model.                                                    *)
(***************************************************************************)
MaxFree == 2     \* freely chosen rows of the school table
MaxPad == 21     \* regular (distinct name, distinct code) rows of the table
MaxRows == 12    \* year arrays handed to the constructor
MaxEdits == 2    \* cells overwritten in a prepared slice

(***************************************************************************)
(* Program constants.                                                      *)
(***************************************************************************)
NumYears == 10
NumSchools == 20
NumGrades == 3
Threshold == 500
FirstYear == 2013

(***************************************************************************)
(* Python built-ins used by the code.                                      *)
(***************************************************************************)
Digits == <<"0", "1", "2", "3", "4", "5", "6", "7", "8", "9">>

IsDigit(ch) == \E i \in 1..10 : Digits[i] = ch

DigitVal(ch) == (CHOOSE i \in 1..10 : Digits[i] = ch) - 1

RECURSIVE StrNat(_)
StrNat(n) ==
    IF n < 10 THEN <<Digits[n + 1]>>
    ELSE StrNat(n \div 10) \o <<Digits[(n % 10) + 1]>>

\* str(c) of an integer
Str(n) == IF n < 0 THEN <<"-">> \o StrNat(0 - n) ELSE StrNat(n)

RECURSIVE LStrip(_)
LStrip(s) == IF s # <<>> /\ Head(s) = " " THEN LStrip(Tail(s)) ELSE s

RECURSIVE RStrip(_)
RStrip(s) ==
    IF s # <<>> /\ s[Len(s)] = " " THEN RStrip(SubSeq(s, 1, Len(s) - 1)) ELSE s

\* the digits of an int() literal: digits, single underscores between digits
IsIntBody(s) ==
    /\ s # <<>>
    /\ IsDigit(s[1])
    /\ IsDigit(s[Len(s)])
    /\ \A i \in 1..Len(s) : IsDigit(s[i]) \/ s[i] = "_"
    /\ \A i \in 1..(Len(s) - 1) : ~(s[i] = "_" /\ s[i + 1] = "_")

RECURSIVE IntBodyVal(_, _)
IntBodyVal(s, acc) ==
    IF s = <<>> THEN acc
    ELSE IF Head(s) = "_" THEN IntBodyVal(Tail(s), acc)
    ELSE IntBodyVal(Tail(s), 10 * acc + DigitVal(Head(s)))

\* int(text): [ok |-> TRUE, val |-> n], or ok = FALSE where int() raises ValueError
IntParse(text) ==
    LET s == RStrip(LStrip(text))
        signed == s # <<>> /\ (s[1] = "-" \/ s[1] = "+")
        body == IF signed THEN Tail(s) ELSE s
    IN  IF IsIntBody(body)
        THEN [ok |-> TRUE,
              val |-> IF signed /\ s[1] = "-" THEN 0 - IntBodyVal(body, 0)
                      ELSE IntBodyVal(body, 0)]
        ELSE [ok |-> FALSE, val |-> 0]

\* key in d.keys()
DictHas(d, k) == \E i \in 1..Len(d) : d[i][1] = k

\* d[k] for a key that is present
DictGet(d, k) == d[CHOOSE i \in 1..Len(d) : d[i][1] = k][2]

\* d[k] = v: a present key keeps its position, a new key goes last
DictSet(d, k, v) ==
    IF DictHas(d, k)
    THEN [i \in 1..Len(d) |-> IF d[i][1] = k THEN <<k, v>> ELSE d[i]]
    ELSE Append(d, <<k, v>>)

\* list(d.values())
DictValues(d) == [i \in 1..Len(d) |-> d[i][2]]

\* list.index(x): zero-based first position, -1 where it raises ValueError
ListIndex(l, x) ==
    IF \E i \in 1..Len(l) : l[i] = x
    THEN (CHOOSE i \in 1..Len(l) : l[i] = x /\ \A j \in 1..(i - 1) : l[j] # x) - 1
    ELSE 0 - 1

RECURSIVE SumSeq(_)
SumSeq(s) == IF s = <<>> THEN 0 ELSE Head(s) + SumSeq(Tail(s))

NoError == [kind |-> "none", msg |-> "none"]
ValueError(m) == [kind |-> "ValueError", msg |-> m]
IndexError(m) == [kind |-> "IndexError", msg |-> m]

(***************************************************************************)
(* class SchoolData                                                        *)
(***************************************************************************)
RECURSIVE Flatten(_)
Flatten(rs) == IF rs = <<>> THEN <<>> ELSE Head(rs) \o Flatten(Tail(rs))

\* np.array(data): year arrays of one common length stack into a 2D array,
\* flattened here in C order.  Ragged year arrays raise ValueError in numpy
\* >= 1.24 and give a 1D object array of Len(rs) elements before that, which
\* the reshape then rejects with ValueError for every Len(rs) # 600.
NpArray(rs) ==
    IF \A i, j \in 1..Len(rs) : Len(rs[i]) = Len(rs[j])
    THEN [ok |-> TRUE, flat |-> Flatten(rs)]
    ELSE [ok |-> FALSE, flat |-> <<>>]

\* data.reshape((10, 20, 3)): succeeds exactly when the element count matches
ReshapeOk(arr) == arr.ok /\ Len(arr.flat) = NumYears * NumSchools * NumGrades

\* a reshape with the first two axes exchanged: data.reshape((20, 10, 3))
ReshapeSchoolsFirst(flat) ==
    [s \in 1..NumSchools |->
        [y \in 1..NumYears |->
            [g \in 1..NumGrades |->
                flat[(s - 1) * NumYears * NumGrades + (y - 1) * NumGrades + g]]]]

Reshape(flat) ==
    [y \in 1..NumYears |->
        [s \in 1..NumSchools |->
            [g \in 1..NumGrades |->
                flat[(y - 1) * NumSchools * NumGrades + (s - 1) * NumGrades + g]]]]

RECURSIVE DropFrom(_, _)
DropFrom(rest, acc) ==
    IF rest = <<>> THEN acc
    ELSE IF \E i \in 1..Len(acc) : acc[i] = Head(rest)
         THEN DropFrom(Tail(rest), acc)
         ELSE DropFrom(Tail(rest), Append(acc, Head(rest)))

RECURSIVE DropFromLast(_, _)
DropFromLast(rest, acc) ==
    IF rest = <<>> THEN acc
    ELSE IF \E i \in 1..Len(Tail(rest)) : Tail(rest)[i] = Head(rest)
         THEN DropFromLast(Tail(rest), acc)
         ELSE DropFromLast(Tail(rest), Append(acc, Head(rest)))

\* a drop_duplicates that keeps the last occurrence of a row (keep="last")
drop_duplicates_keep_last(df) == DropFromLast(df, <<>>)

\* dataframe[[...]].drop_duplicates().reset_index(drop=True): first occurrence kept
drop_duplicates(df) == DropFrom(df, <<>>)

RECURSIVE NamesLoop(_, _)
NamesLoop(rest, d) ==
    IF rest = <<>> THEN d
    ELSE NamesLoop(Tail(rest), DictSet(d, Head(rest)[1], Head(rest)[2]))

RECURSIVE IdsLoop(_, _)
IdsLoop(rest, d) ==
    IF rest = <<>> THEN d
    ELSE IdsLoop(Tail(rest), DictSet(d, Head(rest)[2], Head(rest)[1]))

set_schools_and_ids(dataframe) ==
    LET sd == drop_duplicates(dataframe)
    IN  <<NamesLoop(sd, <<>>), IdsLoop(sd, <<>>)>>

\* SchoolData(data, school_df)
SchoolDataInit(rs, df) ==
    LET arr == NpArray(rs)
        maps == set_schools_and_ids(df)
    IN  IF ReshapeOk(arr)
        THEN [error |-> NoError, data |-> Reshape(arr.flat),
              names_ids |-> maps[1], ids_names |-> maps[2]]
        ELSE [error |-> ValueError("cannot reshape array"), data |-> <<>>,
              names_ids |-> <<>>, ids_names |-> <<>>]

\* self.data.shape, self.data.ndim
data_shape_dim == <<<<Len(data), Len(data[1]), Len(data[1][1])>>, 3>>

NoSchool == [name |-> <<>>, code |-> 0]

\* a look_up_school whose code branch does not test membership (dict.get style)
look_up_school_unchecked(id_or_name) ==
    IF DictHas(school_names_ids, id_or_name)
    THEN [error |-> NoError, name |-> id_or_name,
          code |-> DictGet(school_names_ids, id_or_name)]
    ELSE IF ~IntParse(id_or_name).ok
    THEN [error |-> ValueError("invalid literal for int()"),
          name |-> <<>>, code |-> 0]
    ELSE [error |-> NoError,
          name |-> IF DictHas(school_ids_names, IntParse(id_or_name).val)
                   THEN DictGet(school_ids_names, IntParse(id_or_name).val)
                   ELSE <<>>,
          code |-> IntParse(id_or_name).val]

\* a look_up_school that tries the code before the name
look_up_school_code_first(id_or_name) ==
    IF IntParse(id_or_name).ok /\ DictHas(school_ids_names, IntParse(id_or_name).val)
    THEN [error |-> NoError,
          name |-> DictGet(school_ids_names, IntParse(id_or_name).val),
          code |-> IntParse(id_or_name).val]
    ELSE IF DictHas(school_names_ids, id_or_name)
    THEN [error |-> NoError, name |-> id_or_name,
          code |-> DictGet(school_names_ids, id_or_name)]
    ELSE [error |-> ValueError("You MUST enter a VALID school name or code."),
          name |-> <<>>, code |-> 0]

look_up_school(id_or_name) ==
    IF DictHas(school_names_ids, id_or_name)
    THEN [error |-> NoError, name |-> id_or_name,
          code |-> DictGet(school_names_ids, id_or_name)]
    ELSE IF ~IntParse(id_or_name).ok
    THEN [error |-> ValueError("invalid literal for int()"),
          name |-> <<>>, code |-> 0]
    ELSE IF DictHas(school_ids_names, IntParse(id_or_name).val)
    THEN [error |-> NoError,
          name |-> DictGet(school_ids_names, IntParse(id_or_name).val),
          code |-> IntParse(id_or_name).val]
    ELSE [error |-> ValueError("You MUST enter a VALID school name or code."),
          name |-> <<>>, code |-> 0]

\* self.data[:, school_array_index, :]
SchoolSlice(idx) == [y \in 1..Len(data) |-> data[y][idx + 1]]

get_school_data(school_code) ==
    LET school_array_index == ListIndex(DictValues(school_names_ids), school_code)
    IN  IF school_array_index < 0
        THEN [error |-> ValueError("is not in list"), slice |-> <<>>]
        ELSE IF school_array_index >= Len(data[1])
        THEN [error |-> IndexError("index out of bounds for axis 1"), slice |-> <<>>]
        ELSE [error |-> NoError, slice |-> SchoolSlice(school_array_index)]

(***************************************************************************)
(* class Statistics.  A float is a fraction [nan, num, den].               *)
(***************************************************************************)
Frac(n, d) == [nan |-> FALSE, num |-> n, den |-> d]
NaN == [nan |-> TRUE, num |-> 0, den |-> 1]

Column(sd, g) == [y \in 1..Len(sd) |-> sd[y][g]]

\* np.mean of a one-dimensional array
NpMean(s) == IF s = <<>> THEN NaN ELSE Frac(SumSeq(s), Len(s))

school_enrol_grade_means(sd) ==
    <<NpMean(Column(sd, 1)), NpMean(Column(sd, 2)), NpMean(Column(sd, 3))>>

Cells(sd) == Flatten(sd)

MaxOf(s) == CHOOSE v \in {s[i] : i \in 1..Len(s)} : \A j \in 1..Len(s) : s[j] <= v
MinOf(s) == CHOOSE v \in {s[i] : i \in 1..Len(s)} : \A j \in 1..Len(s) : s[j] >= v

school_enrol_max_min(sd) == <<MaxOf(Cells(sd)), MinOf(Cells(sd))>>

\* np.sum(school_data, axis=0): one total per grade
school_enrol_tot_axis0(sd) == [g \in 1..Len(sd[1]) |-> SumSeq(Column(sd, g))]

\* np.sum(school_data, axis=1): one total per year
school_enrol_tot_per_year(sd) == [y \in 1..Len(sd) |-> SumSeq(sd[y])]

school_tot_ten_year(sd) == SumSeq(school_enrol_tot_per_year(sd))

mean_tot_enrol(sd) == NpMean(school_enrol_tot_per_year(sd))

\* school_data[school_data > 500]: the selected cells, in row-major order
Over500(sd) == SelectSeq(Cells(sd), LAMBDA v : v > Threshold)

\* the k-th smallest element of s
Kth(s, k) ==
    CHOOSE v \in {s[i] : i \in 1..Len(s)} :
        /\ Cardinality({i \in 1..Len(s) : s[i] < v}) < k
        /\ Cardinality({i \in 1..Len(s) : s[i] <= v}) >= k

\* np.median: NaN (with a RuntimeWarning, no exception) for an empty array
NpMedian(s) ==
    IF s = <<>> THEN NaN
    ELSE IF Len(s) % 2 = 1 THEN Frac(Kth(s, (Len(s) + 1) \div 2), 1)
    ELSE Frac(Kth(s, Len(s) \div 2) + Kth(s, (Len(s) \div 2) + 1), 2)

median_over_500(sd) == NpMedian(Over500(sd))

\* what print_school_stats computes; it returns normally whenever the
\* functions above do (the format spec .0f prints a NaN as "nan")
print_school_stats(sd) ==
    [error |-> NoError,
     grade_means |-> school_enrol_grade_means(sd),
     max_min |-> school_enrol_max_min(sd),
     tot_per_year |-> school_enrol_tot_per_year(sd),
     years |-> [y \in 1..Len(school_enrol_tot_per_year(sd)) |-> FirstYear + y - 1],
     tot_ten_year |-> school_tot_ten_year(sd),
     mean_tot |-> mean_tot_enrol(sd),
     median_over_500 |-> median_over_500(sd)]

NoReport ==
    [error |-> NoError, grade_means |-> <<>>, max_min |-> <<>>, tot_per_year |-> <<>>,
     years |-> <<>>, tot_ten_year |-> 0, mean_tot |-> NaN, median_over_500 |-> NaN]

(***************************************************************************)
(* Inputs.  given_data.py and Assignment3Data.csv are external to the      *)
(* source file: the year arrays are ten arrays of 20 x 3 values, the       *)
(* table is any sequence of (name, code) rows.                             *)
(***************************************************************************)
\* ten year arrays of 60 values, school-major (school s, grade g at 3 s + g)
GivenData ==
    [y \in 1..NumYears |->
        [k \in 1..(NumSchools * NumGrades) |->
            30 * ((k - 1) \div NumGrades) + 5 * y + 100 * ((k - 1) % NumGrades)]]

FreeNames == {<<"a">>, <<"1">>}
FreeCodes == {1, 2}
FreeRows == {<<n, c>> : n \in FreeNames, c \in FreeCodes}
FreeSeqs == UNION {[1..k -> FreeRows] : k \in 0..MaxFree}

\* regular rows: pairwise distinct names and codes, disjoint from the free ones
PadRow(i) == <<(<<"p">> \o Str(i)), 100 + i>>
Pad(n) == [i \in 1..n |-> PadRow(i)]

\* few regular rows, or about as many as the school axis is long
PadSizes == {0, 1} \cup ((NumSchools - MaxFree - 1)..MaxPad)

\* the regular rows, with free rows before and after them
Tables ==
    UNION {{SubSeq(f, 1, k) \o Pad(n) \o SubSeq(f, k + 1, Len(f)) : k \in 0..Len(f)}
               : f \in FreeSeqs, n \in PadSizes}

Quit == <<"q">>

\* texts that name no school of any table
OddInputs ==
    {<<>>, <<"z">>, <<"7">>, <<" ", "2">>, <<"0", "2">>, <<"-", "1">>,
     <<"2", ".", "0">>, <<"2", "_">>, <<"A">>}

\* what the user may type: the names and codes of the free rows and of the
\* first and last row of the table, the odd texts, and "q"
Inputs(t) ==
    {Quit} \cup OddInputs \cup FreeNames \cup {Str(c) : c \in FreeCodes}
        \cup {t[i][1] : i \in {1, Len(t)} \cap DOMAIN t}
        \cup {Str(t[i][2]) : i \in {1, Len(t)} \cap DOMAIN t}

(***************************************************************************)
(* main()                                                                  *)
(***************************************************************************)
Init ==
    /\ rows = GivenData
    /\ table \in Tables
    /\ pc = "loop"
    /\ data = <<>>
    /\ school_names_ids = <<>>
    /\ school_ids_names = <<>>
    /\ user_input = <<>>
    /\ found = NoSchool
    /\ school_data = <<>>
    /\ report = NoReport
    /\ error = NoError
    /\ edits = 0

\* top of the while loop: data_obj = SchoolData(data, school_df), then the
\* shape and dimension are printed; a ValueError goes to the except clause
Construct ==
    /\ pc = "loop"
    /\ LET obj == SchoolDataInit(rows, table)
       IN  IF obj.error.kind = "none"
           THEN /\ data' = obj.data
                /\ school_names_ids' = obj.names_ids
                /\ school_ids_names' = obj.ids_names
                /\ error' = NoError
                /\ pc' = "prompt"
           ELSE /\ error' = obj.error
                /\ pc' = "except"
                /\ UNCHANGED <<data, school_names_ids, school_ids_names>>
    /\ UNCHANGED <<rows, table, user_input, found, school_data, report, edits>>

\* user_input = input(...); "q" leaves the loop
Prompt ==
    /\ pc = "prompt"
    /\ \E text \in Inputs(table) :
        /\ user_input' = text
        /\ pc' = IF text = Quit THEN "done" ELSE "part2"
    /\ UNCHANGED <<rows, table, data, school_names_ids, school_ids_names,
                   found, school_data, report, error, edits>>

\* input_handler_for_part2(data_obj, user_input).  A ValueError is caught by
\* main's except clause; any other exception leaves main
Part2 ==
    /\ pc = "part2"
    /\ LET r == look_up_school(user_input)
           g == get_school_data(r.code)
       IN  IF r.error.kind # "none"
           THEN /\ error' = r.error
                /\ pc' = "except"
                /\ UNCHANGED <<found, school_data, report>>
           ELSE IF g.error.kind # "none"
           THEN /\ found' = [name |-> r.name, code |-> r.code]
                /\ error' = g.error
                /\ pc' = IF g.error.kind = "ValueError" THEN "except" ELSE "crashed"
                /\ UNCHANGED <<school_data, report>>
           ELSE /\ found' = [name |-> r.name, code |-> r.code]
                /\ school_data' = g.slice
                /\ report' = print_school_stats(g.slice)
                /\ error' = NoError
                /\ pc' = "part3"
    /\ UNCHANGED <<rows, table, data, school_names_ids, school_ids_names,
                   user_input, edits>>

\* the locals of one iteration are dead at `continue`: the next iteration
\* assigns each of them before it reads it
Continue ==
    /\ pc' = "loop"
    /\ user_input' = <<>>
    /\ found' = NoSchool
    /\ school_data' = <<>>
    /\ report' = NoReport
    /\ error' = NoError
    /\ UNCHANGED <<rows, table, data, school_names_ids, school_ids_names, edits>>

\* input_handler_for_part3(data_obj): general_stats only prints; continue
Part3 ==
    /\ pc = "part3"
    /\ Continue

\* except ValueError as e: print(e); continue
Except ==
    /\ pc = "except"
    /\ Continue

Next == Construct \/ Prompt \/ Part2 \/ Part3 \/ Except

Spec == Init /\ [][Next]_vars

(***************************************************************************)
(* The constructor alone, on year arrays of any number and length.         *)
(***************************************************************************)
RowLens == {50, 60}

\* year array i with n values
MakeRow(i, n) == [k \in 1..n |-> i + k]

InitShape ==
    /\ \E n \in 0..MaxRows :
        \E lens \in [1..n -> RowLens] :
            rows = [i \in 1..n |-> MakeRow(i, lens[i])]
    /\ table = Pad(NumSchools)
    /\ pc = "loop"
    /\ data = <<>>
    /\ school_names_ids = <<>>
    /\ school_ids_names = <<>>
    /\ user_input = <<>>
    /\ found = NoSchool
    /\ school_data = <<>>
    /\ report = NoReport
    /\ error = NoError
    /\ edits = 0

NextShape == Construct

SpecShape == InitShape /\ [][NextShape]_vars

(***************************************************************************)
(* The Statistics functions alone, on prepared (10 x 3) slices.            *)
(***************************************************************************)
ZeroSlice == [y \in 1..NumYears |-> <<0, 0, 0>>]
ExampleSlice == [y \in 1..NumYears |-> <<100, 200, 200>>]
FlatSlice == [y \in 1..NumYears |-> <<Threshold, Threshold, Threshold>>]
RampSlice == [y \in 1..NumYears |-> [g \in 1..NumGrades |-> 450 + 20 * y + 10 * g]]

BaseSlices == {ZeroSlice, ExampleSlice, FlatSlice, RampSlice}
EditYears == 1..2
EditValues == {0, Threshold, Threshold + 1, 900}

InitStats ==
    /\ rows = <<>>
    /\ table = <<>>
    /\ pc = "slice"
    /\ data = <<>>
    /\ school_names_ids = <<>>
    /\ school_ids_names = <<>>
    /\ user_input = <<>>
    /\ found = NoSchool
    /\ school_data \in BaseSlices
    /\ report = NoReport
    /\ error = NoError
    /\ edits = 0

\* the caller prepares the slice: one cell is overwritten
EditCell ==
    /\ pc = "slice"
    /\ edits < MaxEdits
    /\ \E y \in EditYears, g \in 1..NumGrades, v \in EditValues :
        school_data' = [school_data EXCEPT ![y][g] = v]
    /\ edits' = edits + 1
    /\ UNCHANGED <<rows, table, pc, data, school_names_ids, school_ids_names,
                   user_input, found, report, error>>

\* Statistics.print_school_stats(school_data)
PrintSchoolStats ==
    /\ pc = "slice"
    /\ report' = print_school_stats(school_data)
    /\ pc' = "reported"
    /\ UNCHANGED <<rows, table, data, school_names_ids, school_ids_names,
                   user_input, found, school_data, error, edits>>

NextStats == EditCell \/ PrintSchoolStats

SpecStats == InitStats /\ [][NextStats]_vars

(***************************************************************************)
(* Properties.                                                             *)
(***************************************************************************)
\* a SchoolData object has been constructed and main waits for a query
Constructed == pc = "prompt"

KnownCodes == {school_ids_names[i][1] : i \in 1..Len(school_ids_names)}
KnownNames == {school_names_ids[i][1] : i \in 1..Len(school_names_ids)}
NameFor(c) == DictGet(school_ids_names, c)

\* the rows of t that repeat no earlier row, in their order in t
RECURSIVE UniquePairs(_)
UniquePairs(t) ==
    IF t = <<>> THEN <<>>
    ELSE LET front == SubSeq(t, 1, Len(t) - 1)
             last == t[Len(t)]
         IN  IF \E i \in 1..Len(front) : front[i] = last
             THEN UniquePairs(front)
             ELSE Append(UniquePairs(front), last)

\* zero-based first-seen order of code c among the unique pairs of t
FirstSeen(t, c) ==
    LET u == UniquePairs(t)
    IN  (CHOOSE i \in 1..Len(u) : u[i][2] = c /\ \A j \in 1..(i - 1) : u[j][2] # c) - 1

\* C1, as stated: for every known code c, look_up_school(str(c)) and
\* look_up_school(name_for(c)) return the same (name, code) pair.
C1_SamePair ==
    Constructed =>
        \A c \in KnownCodes : look_up_school(Str(c)) = look_up_school(NameFor(c))

\* C1, amended: the two lookups return the same pair exactly when
\* name_for(c) is the text str(c) itself, or str(c) is not a school name and
\* the name -> code mapping takes name_for(c) back to c.
C1_SamePairExactlyWhen ==
    Constructed =>
        \A c \in KnownCodes :
            (look_up_school(Str(c)) = look_up_school(NameFor(c)))
                <=> \/ NameFor(c) = Str(c)
                    \/ /\ Str(c) \notin KnownNames
                       /\ DictGet(school_names_ids, NameFor(c)) = c

\* a lookup by the text of a known code was answered by the name match
C1_Witness ==
    /\ pc = "part3"
    /\ \E c \in KnownCodes :
        /\ user_input = Str(c)
        /\ user_input \in KnownNames
        /\ found.name = user_input
        /\ found.code # c
        /\ NameFor(c) # user_input

\* neither a school name nor text that int() turns into a known code
Unknown(text) ==
    /\ text \notin KnownNames
    /\ \/ ~IntParse(text).ok
       \/ IntParse(text).val \notin KnownCodes

\* C2: a lookup of an identifier that is neither a known name nor a known
\* code raises ValueError (no pair is returned), whether int() rejects the
\* text or yields an absent code, and leaves the index and the tensor as
\* they were.
C2_UnknownRaises ==
    [][(pc = "part2" /\ Unknown(user_input))
          => /\ pc' = "except"
             /\ error'.kind = "ValueError"
             /\ found' = found
             /\ UNCHANGED <<data, school_names_ids, school_ids_names>>]_vars

\* numeric text for an absent code was rejected, with schools in the index
C2_Witness ==
    /\ pc = "except"
    /\ error.kind = "ValueError"
    /\ Unknown(user_input)
    /\ IntParse(user_input).ok
    /\ school_names_ids # <<>>

\* C3: a failed lookup is caught and the loop goes on; main ends only when
\* the user enters "q".
C3_EndsOnlyOnQuit ==
    /\ pc \in {"done", "crashed"} => user_input = Quit
    /\ pc = "except" => error.kind = "ValueError"

\* C4: for every known code, get_school_data returns the slice of the
\* tensor at the code's first-seen position among the unique pairs.
C4_SliceAtFirstSeen ==
    Constructed =>
        \A c \in KnownCodes :
            /\ get_school_data(c).error.kind = "none"
            /\ FirstSeen(table, c) < NumSchools
            /\ get_school_data(c).slice =
                   [y \in 1..NumYears |-> data[y][FirstSeen(table, c) + 1]]

\* some name has two codes, or some code two names, among the rows of t
Conflicting(t) ==
    \E i, j \in 1..Len(t) :
        \/ t[i][1] = t[j][1] /\ t[i][2] # t[j][2]
        \/ t[i][2] = t[j][2] /\ t[i][1] # t[j][1]

Bijective ==
    /\ Len(school_names_ids) = Len(school_ids_names)
    /\ \A n \in KnownNames :
        /\ DictGet(school_names_ids, n) \in KnownCodes
        /\ NameFor(DictGet(school_names_ids, n)) = n
    /\ \A c \in KnownCodes :
        /\ NameFor(c) \in KnownNames
        /\ DictGet(school_names_ids, NameFor(c)) = c

\* C5: building the index fails on a table with a name of two codes or a
\* code of two names, so every index that was built is bijective.
C5_BuiltIsBijective == Constructed => (~Conflicting(table) /\ Bijective)

\* C7: no dataset exists whose index has fewer or more than 20 schools.
C7_TwentySchools == Constructed => Len(school_names_ids) = NumSchools

\* C9: the index built from a table with duplicate rows is the index built
\* from the table with the duplicates removed (first occurrence kept): the
\* same mappings in the same insertion order.
C9_DuplicatesCollapse ==
    Constructed =>
        <<school_names_ids, school_ids_names>> = set_schools_and_ids(UniquePairs(table))

\* an index was built from a table in which a row repeats
C9_Witness ==
    /\ pc = "part3"
    /\ Len(UniquePairs(table)) < Len(table)
    /\ Len(school_names_ids) > 1

AllRowsOfSixty(rs) == Len(rs) = NumYears /\ \A i \in 1..Len(rs) : Len(rs[i]) = 60

TotalElems(rs) == SumSeq([i \in 1..Len(rs) |-> Len(rs[i])])

Uniform(rs) == \A i, j \in 1..Len(rs) : Len(rs[i]) = Len(rs[j])

NoneOver500(sd) == \A y \in 1..Len(sd) : \A g \in 1..Len(sd[y]) : sd[y][g] <= Threshold

\* the cells above 500, by position, and the element of rank k among them
CellsOver500(sd) ==
    {yg \in (1..Len(sd)) \X (1..NumGrades) : sd[yg[1]][yg[2]] > Threshold}

RankOver500(sd, k) ==
    CHOOSE v \in {sd[yg[1]][yg[2]] : yg \in CellsOver500(sd)} :
        /\ Cardinality({yg \in CellsOver500(sd) : sd[yg[1]][yg[2]] < v}) < k
        /\ Cardinality({yg \in CellsOver500(sd) : sd[yg[1]][yg[2]] <= v}) >= k

\* the value returned is the median of exactly the cells above 500
C8_MedianOfCellsOver500 ==
    (pc = "reported" /\ ~NoneOver500(school_data)) =>
        LET n == Cardinality(CellsOver500(school_data))
            m == report.median_over_500
        IN  /\ report.error.kind = "none"
            /\ ~m.nan
            /\ 2 * m.num = m.den * (RankOver500(school_data, (n + 1) \div 2)
                                        + RankOver500(school_data, (n \div 2) + 1))

\* C8: on a slice with no cell above 500, median_over_500 fails instead of
\* returning a value; otherwise it returns the median of exactly the cells
\* above 500.
C8_EmptyMedianFails ==
    /\ (pc = "reported" /\ NoneOver500(school_data)) => report.error.kind # "none"
    /\ C8_MedianOfCellsOver500

\* C10: there are ten per-year totals, each the sum of that year's three
\* cells; their sum is the ten-year total, which is the sum of all 30 cells;
\* the slice 100/200/200 gives ten totals of 500 and a ten-year total of 5000.
C10_TotalsAgree ==
    pc = "reported" =>
        /\ Len(report.tot_per_year) = NumYears
        /\ \A y \in 1..NumYears :
            report.tot_per_year[y]
                = school_data[y][1] + school_data[y][2] + school_data[y][3]
        /\ SumSeq(report.tot_per_year) = report.tot_ten_year
        /\ report.tot_ten_year
               = SumSeq([g \in 1..NumGrades |-> SumSeq(Column(school_data, g))])
        /\ school_data = ExampleSlice =>
               /\ report.tot_per_year = [y \in 1..NumYears |-> 500]
               /\ report.tot_ten_year = 5000

\* the totals of the 100/200/200 slice were computed
C10_Witness ==
    /\ pc = "reported"
    /\ school_data = ExampleSlice
    /\ report.tot_ten_year = 5000

====
